---- MODULE Spec2Model ----
(***************************************************************************)
(* JunctionRelay FrameEngine: the e-paper frame display service.           *)
(*                                                                         *)
(*   main.py             FrameDisplayApp: start-up, main loop, shutdown    *)
(*   display_service.py  DisplayService: the panel driver's owner          *)
(*   http_server.py      FrameHTTPServer: ingestion endpoints, one render  *)
(*                       thread per accepted frame                         *)
(*                                                                         *)
(* Byte buffers are sequences of integers 0..255.  The panel driver (the   *)
(* vendor EPD class), PIL and gzip are libraries outside the repository;   *)
(* they are modelled by what the repository's code relies on.              *)
(***************************************************************************)
EXTENDS Integers, Sequences, FiniteSets, TLC

(***************************************************************************)
(* Bounds of the model                                                     *)
(***************************************************************************)
\* HTTP requests handled in one run of the service
MaxRequests == 3

\* Frames posted while status is polled
MaxFrames == 2

\* Calls of the driver's sleep() an API caller may bring about
MaxShutdowns == 2

(***************************************************************************)
(* Program constants                                                       *)
(***************************************************************************)
\* http_server.py:13  self.last_frame_time = None
None == -1

\* http_server.py:156  len(data) < 8
PrefixLen == 8

\* http_server.py:204 and :52  len(frame_data) < 100
MinFrameLen == 100

\* http_server.py:209 and :258  b'\x89PNG\r\n\x1a\n'
PNG_SIGNATURE == <<137, 80, 78, 71, 13, 10, 26, 10>>

\* display_service.py:14-45  DISPLAY_MODELS (module and description left out)
DISPLAY_MODELS ==
    [m \in {"5.79g", "7.3e", "7.3f", "7.3g", "4.0e"} |->
        CASE m = "5.79g" -> [width |-> 792, height |-> 272]
          [] m = "4.0e"  -> [width |-> 640, height |-> 400]
          [] OTHER       -> [width |-> 800, height |-> 480]]

(***************************************************************************)
(* Byte-level helpers                                                      *)
(***************************************************************************)
\* data[:n]
Take(s, n) == SubSeq(s, 1, IF Len(s) < n THEN Len(s) ELSE n)

\* data[n:]
Drop(s, n) == SubSeq(s, n + 1, Len(s))

\* n bytes of value b
Fill(n, b) == [i \in 1..n |-> b]

\* bytes.decode('ascii') succeeds
AsciiDecodable(s) == \A i \in 1..Len(s) : s[i] < 128

\* str.isdigit() of an ASCII string
IsDigitStr(s) == Len(s) > 0 /\ \A i \in 1..Len(s) : s[i] >= 48 /\ s[i] <= 57

\* int() of a two-digit ASCII string
Int2(s) == (s[1] - 48) * 10 + (s[2] - 48)

\* UTF-8: the number of continuation bytes a lead byte announces (4: the byte
\* cannot start a character)
Utf8Need(b) ==
    IF b < 128 THEN 0
    ELSE IF b >= 194 /\ b <= 223 THEN 1
    ELSE IF b >= 224 /\ b <= 239 THEN 2
    ELSE IF b >= 240 /\ b <= 244 THEN 3
    ELSE 4

Utf8Cont(b) == b >= 128 /\ b <= 191

\* bytes.decode('utf-8') succeeds: every byte is a lead followed by the
\* continuation bytes it announces, or one of the continuation bytes of a lead
Utf8Decodable(s) ==
    \A i \in 1..Len(s) :
        IF Utf8Cont(s[i])
        THEN \E k \in 1..3 :
                /\ i - k >= 1
                /\ Utf8Need(s[i - k]) \in k..3
                /\ \A j \in (i - k + 1)..i : Utf8Cont(s[j])
        ELSE /\ Utf8Need(s[i]) < 4
             /\ i + Utf8Need(s[i]) <= Len(s)
             /\ \A j \in (i + 1)..(i + Utf8Need(s[i])) : Utf8Cont(s[j])

(***************************************************************************)
(* PIL, as display_frame uses it.  A PNG is its signature, the IHDR chunk  *)
(* (length, "IHDR", width, height, bit depth, colour type, compression,    *)
(* filter, interlace) and the data; the pixel content is abstracted to the *)
(* first byte after the IHDR fields.                                       *)
(***************************************************************************)
IHDR_LEN == <<0, 0, 0, 13>>
IHDR_TAG == <<73, 72, 68, 82>>

BE4(n) == <<0, 0, n \div 256, n % 256>>

FromBE4(s) == ((s[1] * 256 + s[2]) * 256 + s[3]) * 256 + s[4]

\* The image value the panel or a thread holds when it holds none
NoImage == [size |-> <<0, 0>>, mode |-> "none", px |-> 0]

\* PIL's mode for a PNG colour type
PngMode(ct) ==
    CASE ct = 0 -> "L" [] ct = 2 -> "RGB" [] ct = 3 -> "P"
      [] ct = 4 -> "LA" [] ct = 6 -> "RGBA" [] OTHER -> "none"

\* Image.open(io.BytesIO(frame_data)) followed by the load that resize or
\* convert forces: NoImage stands for the exception PIL raises
PilOpen(frame_data) ==
    IF /\ Len(frame_data) >= 30
       /\ Take(frame_data, 8) = PNG_SIGNATURE
       /\ SubSeq(frame_data, 13, 16) = IHDR_TAG
       /\ frame_data[25] \in {1, 2, 4, 8, 16}
       /\ PngMode(frame_data[26]) # "none"
       /\ FromBE4(SubSeq(frame_data, 17, 20)) > 0
       /\ FromBE4(SubSeq(frame_data, 21, 24)) > 0
    THEN [size |-> <<FromBE4(SubSeq(frame_data, 17, 20)),
                     FromBE4(SubSeq(frame_data, 21, 24))>>,
          mode |-> PngMode(frame_data[26]),
          px   |-> frame_data[30]]
    ELSE NoImage

\* image.resize((w, h), LANCZOS)
Resize(image, w, h) == [image EXCEPT !.size = <<w, h>>]

\* image.convert('RGB')
ConvertRGB(image) == [image EXCEPT !.mode = "RGB"]

\* A display_frame that would hand the image on in the size it came in
PrepareImageNoResize(frame_data, w, h) ==
    LET image == PilOpen(frame_data)
    IN  IF image = NoImage THEN NoImage
        ELSE IF image.mode # "RGB" THEN ConvertRGB(image) ELSE image

\* display_frame, lines 133-142: the image handed on, NoImage on an exception
PrepareImage(frame_data, w, h) ==
    LET image   == PilOpen(frame_data)
        resized == IF image.size # <<w, h>> THEN Resize(image, w, h) ELSE image
    IN  IF image = NoImage THEN NoImage
        ELSE IF resized.mode # "RGB" THEN ConvertRGB(resized) ELSE resized

\* A PNG of n bytes (n >= 30): w x h pixels, colour type ct, content px
MkPng(w, h, ct, px, n) ==
    PNG_SIGNATURE \o IHDR_LEN \o IHDR_TAG \o BE4(w) \o BE4(h)
        \o <<8, ct, 0, 0, 0>> \o <<px>> \o Fill(n - 30, 0)

\* gzip.decompress(data): the member's content, or <<-1>> for the exception
\* (a stored member: magic 1f 8b, method 8, then the content)
GzipBad == <<-1>>

GzipDecompress(data) ==
    IF Len(data) >= 3 /\ Take(data, 3) = <<31, 139, 8>> THEN Drop(data, 3) ELSE GzipBad

(***************************************************************************)
(* http_server.py: the decoding of an inbound buffer.  Each operator gives *)
(* the handler's outcome: kind (the message kind the buffer was taken      *)
(* for), payload (what was handed to the kind's handler), ret (the         *)
(* handler's return value) and spawn (a render thread is started for       *)
(* payload).                                                               *)
(***************************************************************************)
Outcome(kind, payload, ret, spawn) ==
    [kind |-> kind, payload |-> payload, ret |-> ret, spawn |-> spawn]

\* _handle_frame_data (type 02)
HandleFrameData(frame_data) ==
    IF Len(frame_data) < MinFrameLen
    THEN Outcome("Frame", frame_data, FALSE, FALSE)
    ELSE \* a missing PNG signature is only logged
         Outcome("Frame", frame_data, TRUE, TRUE)

\* _handle_json_data (type 00)
HandleJsonData(json_data) ==
    Outcome("ConfigJson", json_data, Utf8Decodable(json_data), FALSE)

\* A _handle_gzip_data that would pass what it decompressed on to a render
HandleGzipDataRenders(gzip_data) ==
    IF GzipDecompress(gzip_data) # GzipBad
    THEN Outcome("ConfigGzip", GzipDecompress(gzip_data), TRUE, TRUE)
    ELSE Outcome("ConfigGzip", gzip_data, FALSE, FALSE)

\* _handle_gzip_data (type 01)
HandleGzipData(gzip_data) ==
    Outcome("ConfigGzip", gzip_data,
            /\ GzipDecompress(gzip_data) # GzipBad
            /\ Utf8Decodable(GzipDecompress(gzip_data)),
            FALSE)

\* _handle_raw_png as a slip would have it: the first 8 bytes dropped as if
\* they were a prefix
HandleRawPngStripped(png_data) ==
    IF Take(png_data, 8) = PNG_SIGNATURE
    THEN Outcome("Frame", Drop(png_data, 8), TRUE, TRUE)
    ELSE Outcome("Unknown", png_data, FALSE, FALSE)

\* _handle_raw_png (no prefix)
HandleRawPng(png_data) ==
    IF Take(png_data, 8) = PNG_SIGNATURE
    THEN Outcome("Frame", png_data, TRUE, TRUE)
    ELSE Outcome("Unknown", png_data, FALSE, FALSE)

\* _process_stream_data as a slip would have it: the type read from
\* prefix_str[6:8], the route's place
ProcessStreamDataTypeFromRoute(data) ==
    IF Len(data) < PrefixLen THEN Outcome("TooShort", data, FALSE, FALSE)
    ELSE LET prefix_bytes == Take(data, 8)
             type_field   == Int2(SubSeq(prefix_bytes, 7, 8))
             payload      == Drop(data, 8)
         IN  IF ~AsciiDecodable(prefix_bytes) THEN HandleRawPng(data)
             ELSE IF ~IsDigitStr(prefix_bytes) THEN HandleRawPng(data)
             ELSE IF type_field = 2 THEN HandleFrameData(payload)
             ELSE IF type_field = 0 THEN HandleJsonData(payload)
             ELSE IF type_field = 1 THEN HandleGzipData(payload)
             ELSE Outcome("Unknown", payload, FALSE, FALSE)

\* _process_stream_data as a slip would have it: len(data) < 7
ProcessStreamDataOffByOne(data) ==
    IF Len(data) < PrefixLen - 1 THEN Outcome("TooShort", data, FALSE, FALSE)
    ELSE LET prefix_bytes == Take(data, 8)
             type_field   == Int2(SubSeq(prefix_bytes, 5, 6))
             payload      == Drop(data, 8)
         IN  IF ~AsciiDecodable(prefix_bytes) THEN HandleRawPng(data)
             ELSE IF ~IsDigitStr(prefix_bytes) THEN HandleRawPng(data)
             ELSE IF type_field = 2 THEN HandleFrameData(payload)
             ELSE IF type_field = 0 THEN HandleJsonData(payload)
             ELSE IF type_field = 1 THEN HandleGzipData(payload)
             ELSE Outcome("Unknown", payload, FALSE, FALSE)

\* _process_stream_data
ProcessStreamData(data) ==
    IF Len(data) < PrefixLen THEN Outcome("TooShort", data, FALSE, FALSE)
    ELSE LET prefix_bytes == Take(data, 8)
             type_field   == Int2(SubSeq(prefix_bytes, 5, 6))
             payload      == Drop(data, 8)
         IN  IF ~AsciiDecodable(prefix_bytes) THEN HandleRawPng(data)
             ELSE IF ~IsDigitStr(prefix_bytes) THEN HandleRawPng(data)
             ELSE IF type_field = 2 THEN HandleFrameData(payload)
             ELSE IF type_field = 0 THEN HandleJsonData(payload)
             ELSE IF type_field = 1 THEN HandleGzipData(payload)
             ELSE Outcome("Unknown", payload, FALSE, FALSE)

(***************************************************************************)
(* Inputs                                                                  *)
(***************************************************************************)
\* "LLLLTTRR" as bytes, from the three fields' digits
Prefix(llll, tt, rr) == llll \o tt \o rr

Digits(n, k) == [i \in 1..k |-> 48 + ((n \div (10 ^ (k - i))) % 10)]

\* Two frames of the 5.79" panel's size
FrameA == MkPng(792, 272, 2, 1, MinFrameLen)
FrameB == MkPng(792, 272, 2, 2, MinFrameLen)

\* What is POSTed to /api/data in the runs of the whole service
DataInputs ==
    { Prefix(Digits(0, 4), Digits(2, 2), Digits(0, 2)) \o FrameA,
      Prefix(Digits(0, 4), Digits(2, 2), Digits(0, 2)) \o FrameB,
      Take(PNG_SIGNATURE, 4) }

\* What is POSTed to /api/display/frame in the runs of the whole service
LegacyInputs == { FrameA }

\* Models given on the command line that main() lets through
ArgModels == {"5.79g"}

\* Models given on the command line, one of which is in no registry
CommandLineModels == ArgModels \cup {"9.9z"}

\* The (width, height) attributes the vendor driver object may carry for a
\* model: the nominal ones, or the panel's native portrait orientation
DriverGeometry(m) ==
    { <<DISPLAY_MODELS[m].width, DISPLAY_MODELS[m].height>>,
      <<DISPLAY_MODELS[m].height, DISPLAY_MODELS[m].width>> }

(***************************************************************************)
(* State                                                                   *)
(***************************************************************************)
VARIABLES
    main_pc,            \* where the main thread is (main.py)
    args_model,         \* args.model, the --model argument
    exit_code,          \* what main() returned to sys.exit, None while running
    running,            \* FrameDisplayApp.running
    binding,            \* what importing the model's vendor module does
    model,              \* DisplayService.model
    width, height,      \* DisplayService.width, .height
    initialized,        \* DisplayService.initialized
    hardware_available, \* DisplayService.hardware_available
    epd,                \* DisplayService.epd is an EPD object (not None)
    alarm,              \* the SIGALRM timer armed by initialize() is pending
    init_result,        \* what initialize() returned, "pending" before it has
    http_server,        \* FrameDisplayApp.http_server is set and its thread started
    srv_running,        \* FrameHTTPServer.running
    frame_count,        \* FrameHTTPServer.frame_count
    last_frame_time,    \* FrameHTTPServer.last_frame_time
    clock,              \* the value time.time() last returned
    threads,            \* the render threads started so far, in start order
    panel_image,        \* the image the panel shows
    panel_asleep,       \* the driver's sleep() has been called
    sleep_calls,        \* how many times the driver's sleep() has been called
    late_display,       \* a display() call reached the driver after sleep()
    sim_file,           \* the image last saved in simulation mode
    http,               \* the last HTTP exchange: endpoint, body, status, outcome
    nreq,               \* POST requests handled so far
    status_call,        \* the GET /api/status request being served
    status,             \* the last GET /api/status response
    snapshots,          \* the (frame_count, last_frame_time) pairs renders left
    stats               \* what get_display_stats() last returned

vars == <<main_pc, args_model, exit_code, running, binding, model, width, height,
          initialized, hardware_available, epd, alarm, init_result, http_server,
          srv_running, frame_count, last_frame_time, clock, threads, panel_image,
          panel_asleep, sleep_calls, late_display, sim_file, http, nreq,
          status_call, status, snapshots, stats>>

displayVars == <<model, width, height, initialized, hardware_available, epd, alarm,
                 init_result>>
mainVars    == <<main_pc, running, http_server, srv_running, exit_code>>
envVars     == <<args_model, binding>>
counterVars == <<frame_count, last_frame_time>>
panelVars   == <<panel_image, panel_asleep, sleep_calls, late_display, sim_file>>
httpVars    == <<http, nreq>>
statusVars  == <<status_call, status, stats>>

NoExchange == [ep |-> "none", body |-> <<>>, status |-> 0,
               out |-> Outcome("none", <<>>, FALSE, FALSE)]

\* get_display_stats() has not been called
NoStats == [initialized |-> FALSE, hardware_available |-> FALSE,
            model |-> "none", width |-> 0, height |-> 0]

\* No GET /api/status is being served; none has been answered
NoStatusCall == [pc |-> "idle", frames_displayed |-> 0, display_stats |-> NoStats]
NoStatus == [frames_displayed |-> None, last_frame |-> None,
             display_initialized |-> FALSE, hardware_available |-> FALSE]

\* threading.Thread(target=_render).start() with frame_data in its closure
NewThread(frame_data) ==
    [pc |-> "open", frame_data |-> frame_data, image |-> NoImage,
     tmp |-> 0, t |-> None, result |-> "running", attempts |-> 0]

\* The process is alive: its daemon threads run until the main thread ends
Alive == main_pc \notin {"exited"}

\* Calls of the driver's display() in progress
InDisplay == {i \in 1..Len(threads) : threads[i].pc = "displaying"}

\* Render threads that have not finished
Unfinished == {i \in 1..Len(threads) : threads[i].pc # "done"}

(***************************************************************************)
(* Initial state: main() has parsed its arguments (main.py:127-128)        *)
(***************************************************************************)
Init ==
    /\ main_pc = "main"
    /\ args_model \in CommandLineModels
    /\ exit_code = None
    /\ running = FALSE
    /\ binding \in {"imports", "absent", "broken"}
    /\ model = "none"
    /\ width = 0
    /\ height = 0
    /\ initialized = FALSE
    /\ hardware_available = FALSE
    /\ epd = FALSE
    /\ alarm = FALSE
    /\ init_result = "pending"
    /\ http_server = FALSE
    /\ srv_running = FALSE
    /\ frame_count = 0
    /\ last_frame_time = None
    /\ clock = 0
    /\ threads = <<>>
    /\ panel_image = NoImage
    /\ panel_asleep = FALSE
    /\ sleep_calls = 0
    /\ late_display = FALSE
    /\ sim_file = NoImage
    /\ http = NoExchange
    /\ nreq = 0
    /\ status_call = NoStatusCall
    /\ status = NoStatus
    /\ snapshots = {<<0, None>>}
    /\ stats = NoStats

(***************************************************************************)
(* main.py and display_service.py: start-up                                *)
(***************************************************************************)
\* What no start-up step touches
startupRest == <<envVars, counterVars, clock, threads, panelVars, httpVars,
                 statusVars, snapshots>>

\* A main() that would construct the application for whatever model it is given
MainSkipsValidation ==
    /\ main_pc = "main"
    /\ main_pc' = "construct"
    /\ UNCHANGED <<running, http_server, srv_running, exit_code, displayVars,
                   startupRest>>

\* main(): the model is looked up in get_supported_models(); an unknown one
\* ends the process with 1 before anything is constructed (main.py:141-147)
MainValidatesModel ==
    /\ main_pc = "main"
    /\ IF args_model \in DOMAIN DISPLAY_MODELS
       THEN /\ main_pc' = "construct"
            /\ UNCHANGED exit_code
       ELSE /\ main_pc' = "exited"
            /\ exit_code' = 1
    /\ UNCHANGED <<running, http_server, srv_running, displayVars, startupRest>>

\* FrameDisplayApp(args.model): DisplayService.__init__ takes the model's
\* size (an unknown model would become "5.79g") and imports the vendor
\* module, which is there or raises ImportError (main.py:150, 16-18;
\* display_service.py:48-77)
ConstructService ==
    /\ main_pc = "construct"
    /\ binding \in {"imports", "absent"}
    /\ LET m == IF args_model \in DOMAIN DISPLAY_MODELS THEN args_model ELSE "5.79g"
       IN  /\ model' = m
           /\ width' = DISPLAY_MODELS[m].width
           /\ height' = DISPLAY_MODELS[m].height
    /\ hardware_available' = (binding = "imports")
    /\ main_pc' = "start"
    /\ UNCHANGED <<initialized, epd, alarm, init_result>>
    /\ UNCHANGED <<running, http_server, srv_running, exit_code, startupRest>>

\* DisplayService.__init__: importing the vendor module raises something
\* that is no ImportError; nothing catches it and the interpreter ends the
\* process with status 1 (display_service.py:69-77; main.py:150, 155)
ConstructRaises ==
    /\ main_pc = "construct"
    /\ binding = "broken"
    /\ main_pc' = "exited"
    /\ exit_code' = 1
    /\ UNCHANGED <<running, http_server, srv_running, displayVars, startupRest>>

\* initialize() without the vendor library (display_service.py:82, 114-118)
InitializeSimulation ==
    /\ main_pc = "start"
    /\ ~hardware_available
    /\ initialized' = TRUE
    /\ init_result' = "True"
    /\ main_pc' = "startup"
    /\ UNCHANGED <<model, width, height, hardware_available, epd, alarm>>
    /\ UNCHANGED <<running, http_server, srv_running, exit_code, startupRest>>

\* An initialize() that would call epd.init() with no alarm armed
InitializeCreateEpdNoAlarm ==
    /\ main_pc = "start"
    /\ hardware_available
    /\ epd' = TRUE
    /\ main_pc' = "epd_init"
    /\ UNCHANGED <<model, width, height, initialized, hardware_available, alarm,
                   init_result>>
    /\ UNCHANGED <<running, http_server, srv_running, exit_code, startupRest>>

\* initialize(): EPD() is constructed and the alarm armed (:84-96)
InitializeCreateEpd ==
    /\ main_pc = "start"
    /\ hardware_available
    /\ epd' = TRUE
    /\ alarm' = TRUE
    /\ main_pc' = "epd_init"
    /\ UNCHANGED <<model, width, height, initialized, hardware_available, init_result>>
    /\ UNCHANGED <<running, http_server, srv_running, exit_code, startupRest>>

\* initialize(): EPD() raises; the outer handler returns False (:87, 120-127)
InitializeCreateFails ==
    /\ main_pc = "start"
    /\ hardware_available
    /\ init_result' = "False"
    /\ main_pc' = "failed"
    /\ UNCHANGED <<model, width, height, initialized, hardware_available, epd, alarm>>
    /\ UNCHANGED <<running, http_server, srv_running, exit_code, startupRest>>

\* initialize(): epd.init() is a call that will never return (:99)
EpdInitHangs ==
    /\ main_pc = "epd_init"
    /\ main_pc' = "epd_hung"
    /\ UNCHANGED <<running, http_server, srv_running, exit_code, displayVars,
                   startupRest>>

\* initialize(): epd.init() returns; the alarm is cancelled and the driver's
\* geometry taken (:99-101, 110-118)
EpdInitReturns ==
    /\ main_pc = "epd_init"
    /\ alarm' = FALSE
    /\ \E g \in DriverGeometry(model) :
          /\ width' = g[1]
          /\ height' = g[2]
    /\ initialized' = TRUE
    /\ init_result' = "True"
    /\ main_pc' = "startup"
    /\ UNCHANGED <<model, hardware_available, epd>>
    /\ UNCHANGED <<running, http_server, srv_running, exit_code, startupRest>>

\* initialize(): the alarm goes off inside epd.init(); TimeoutError is caught,
\* the alarm cleared and False returned (:92-93, 102-107)
EpdInitTimesOut ==
    /\ main_pc \in {"epd_init", "epd_hung"}
    /\ alarm
    /\ alarm' = FALSE
    /\ init_result' = "False"
    /\ main_pc' = "failed"
    /\ UNCHANGED <<model, width, height, initialized, hardware_available, epd>>
    /\ UNCHANGED <<running, http_server, srv_running, exit_code, startupRest>>

\* initialize(): epd.init() raises something else; only the outer handler
\* catches it and returns False (:120-127)
EpdInitRaises ==
    /\ main_pc = "epd_init"
    /\ init_result' = "False"
    /\ main_pc' = "failed"
    /\ UNCHANGED <<model, width, height, initialized, hardware_available, epd, alarm>>
    /\ UNCHANGED <<running, http_server, srv_running, exit_code, startupRest>>

\* A start() that would go on although initialize() returned False
StartIgnoresFailure ==
    /\ main_pc = "failed"
    /\ main_pc' = "startup"
    /\ UNCHANGED <<running, http_server, srv_running, exit_code, displayVars,
                   startupRest>>

\* start() returns False and main() returns 1 (main.py:39-41, 151-152)
StartFails ==
    /\ main_pc = "failed"
    /\ main_pc' = "exited"
    /\ exit_code' = 1
    /\ UNCHANGED <<running, http_server, srv_running, displayVars, startupRest>>

\* The white image show_startup_screen() builds (display_service.py:165)
StartupImage == [size |-> <<width, height>>, mode |-> "RGB", px |-> 255]

\* show_startup_screen(): display_frame() of the white image; the driver's
\* display() returns or raises (display_service.py:161-180, 144-159)
StartupScreen ==
    /\ IF hardware_available /\ epd
       THEN /\ \/ panel_image' = StartupImage
               \/ panel_image' = panel_image
            /\ late_display' = (late_display \/ panel_asleep)
            /\ UNCHANGED sim_file
       ELSE /\ sim_file' = StartupImage
            /\ UNCHANGED <<panel_image, late_display>>
    /\ UNCHANGED <<panel_asleep, sleep_calls>>

\* start(): show_startup_screen() on the main thread, before any other
\* thread exists (main.py:44)
ShowStartupScreen ==
    /\ main_pc = "startup"
    /\ StartupScreen
    /\ main_pc' = "serve"
    /\ UNCHANGED <<running, http_server, srv_running, exit_code, displayVars>>
    /\ UNCHANGED <<envVars, counterVars, clock, threads, httpVars, statusVars, snapshots>>

\* start(): FrameHTTPServer(display) and its thread (main.py:47-51;
\* http_server.py:8-13, 291-300)
StartServer ==
    /\ main_pc = "serve"
    /\ http_server' = TRUE
    /\ srv_running' = TRUE
    /\ frame_count' = 0
    /\ last_frame_time' = None
    /\ running' = TRUE
    /\ main_pc' = "loop"
    /\ UNCHANGED <<exit_code, displayVars, envVars, clock, threads, panelVars,
                   httpVars, statusVars, snapshots>>

(***************************************************************************)
(* main.py: signals, the main loop and shutdown                            *)
(***************************************************************************)
\* signal_handler(): SIGINT or SIGTERM while the service runs
SignalHandler ==
    /\ Alive
    /\ running
    /\ running' = FALSE
    /\ UNCHANGED <<main_pc, http_server, srv_running, exit_code, displayVars,
                   startupRest>>

\* DisplayService.shutdown(): the driver's sleep() (display_service.py:193-203)
DisplayShutdown ==
    /\ panel_asleep' = (panel_asleep \/ (hardware_available /\ epd))
    /\ sleep_calls' = IF hardware_available /\ epd THEN sleep_calls + 1 ELSE sleep_calls
    /\ UNCHANGED <<panel_image, late_display, sim_file>>

\* start(): the main loop sees running False (main.py:68-74) and calls
\* FrameDisplayApp.shutdown(): FrameHTTPServer.stop(), which only clears the
\* flag, then DisplayService.shutdown() (main.py:82-92; http_server.py:306-309)
AppShutdown ==
    /\ main_pc = "loop"
    /\ ~running
    /\ srv_running' = FALSE
    /\ DisplayShutdown
    /\ main_pc' = "exit"
    /\ UNCHANGED <<running, http_server, exit_code, displayVars>>
    /\ UNCHANGED <<envVars, counterVars, clock, threads, httpVars, statusVars, snapshots>>

\* start() returns True and main() returns 0: the process ends, and its
\* daemon threads with it (main.py:75, 151-155)
ProcessExit ==
    /\ main_pc = "exit"
    /\ main_pc' = "exited"
    /\ exit_code' = 0
    /\ threads' = <<>>
    /\ UNCHANGED <<running, http_server, srv_running, displayVars>>
    /\ UNCHANGED <<envVars, counterVars, clock, panelVars, httpVars, statusVars, snapshots>>

(***************************************************************************)
(* http_server.py: the ingestion endpoints.  Flask serves them from the    *)
(* server thread's start until the process ends (stop() closes nothing).   *)
(***************************************************************************)
Serving == Alive /\ http_server

\* A handle_stream_data that would render the frame itself and answer when
\* display_frame has returned and the counters are updated
HandleStreamDataBlocking(data) ==
    /\ Serving
    /\ LET out   == ProcessStreamData(data)
           image == PrepareImage(out.payload, width, height)
           shown == out.spawn /\ image # NoImage
       IN  /\ http' = [ep |-> "data", body |-> data,
                       status |-> IF Len(data) = 0 THEN 400
                                  ELSE IF out.ret THEN 200 ELSE 500,
                       out |-> IF Len(data) = 0 THEN Outcome("none", data, FALSE, FALSE)
                               ELSE out]
           /\ threads' = IF Len(data) > 0 /\ out.spawn
                         THEN Append(threads,
                                     [NewThread(out.payload) EXCEPT
                                         !.pc = "done", !.attempts = 1,
                                         !.result = IF shown THEN "ok" ELSE "failed"])
                         ELSE threads
           /\ panel_image' = IF shown /\ hardware_available /\ epd THEN image
                             ELSE panel_image
           /\ sim_file' = IF shown /\ ~(hardware_available /\ epd) THEN image
                          ELSE sim_file
           /\ frame_count' = IF shown THEN frame_count + 1 ELSE frame_count
           /\ clock' = IF shown THEN clock + 1 ELSE clock
           /\ last_frame_time' = IF shown THEN clock + 1 ELSE last_frame_time
    /\ nreq' = nreq + 1
    /\ UNCHANGED <<panel_asleep, sleep_calls, late_display>>
    /\ UNCHANGED <<mainVars, displayVars, envVars, statusVars, snapshots>>

\* POST /api/data (handle_stream_data, :20-40)
HandleStreamData(data) ==
    /\ Serving
    /\ LET out == ProcessStreamData(data)
       IN  IF Len(data) = 0
           THEN /\ http' = [ep |-> "data", body |-> data, status |-> 400,
                            out |-> Outcome("none", data, FALSE, FALSE)]
                /\ UNCHANGED threads
           ELSE /\ http' = [ep |-> "data", body |-> data,
                            status |-> IF out.ret THEN 200 ELSE 500, out |-> out]
                /\ threads' = IF out.spawn
                              THEN Append(threads, NewThread(out.payload))
                              ELSE threads
    /\ nreq' = nreq + 1
    /\ UNCHANGED <<mainVars, displayVars, envVars, counterVars, clock, panelVars,
                   statusVars, snapshots>>

\* POST /api/display/frame (display_frame, :42-80)
DisplayFrameEndpoint(frame_data) ==
    /\ Serving
    /\ IF Len(frame_data) = 0 \/ Len(frame_data) < MinFrameLen
       THEN /\ http' = [ep |-> "frame", body |-> frame_data, status |-> 400,
                        out |-> Outcome("Frame", frame_data, FALSE, FALSE)]
            /\ UNCHANGED threads
       ELSE /\ http' = [ep |-> "frame", body |-> frame_data, status |-> 200,
                        out |-> Outcome("Frame", frame_data, TRUE, TRUE)]
            /\ threads' = Append(threads, NewThread(frame_data))
    /\ nreq' = nreq + 1
    /\ UNCHANGED <<mainVars, displayVars, envVars, counterVars, clock, panelVars,
                   statusVars, snapshots>>

(***************************************************************************)
(* A render thread: _render (http_server.py:56-66, 213-223, 261-271)       *)
(* around DisplayService.display_frame (display_service.py:129-159).  The  *)
(* attribute updates "frame_count += 1" and "last_frame_time = time.time()"*)
(* are each a read (or call) and a write that other threads can separate.  *)
(***************************************************************************)
Step(i, pc) == [threads EXCEPT ![i].pc = pc]

\* display_frame up to the driver: open, resize, convert (:133-142), all on
\* the thread's own data; then epd.display(epd.getbuffer(image)) is entered,
\* or the image is saved in simulation mode and True returned (:144-155).
\* An exception from PIL ends the call with False (:157-159)
RenderDisplayFrame(i) ==
    /\ Alive
    /\ threads[i].pc = "open"
    /\ LET image == PrepareImage(threads[i].frame_data, width, height)
       IN  IF image = NoImage
           THEN /\ threads' = [threads EXCEPT ![i].pc = "done", ![i].result = "failed",
                                             ![i].attempts = @ + 1]
                /\ UNCHANGED <<late_display, sim_file>>
           ELSE IF hardware_available /\ epd
           THEN /\ threads' = [threads EXCEPT ![i].pc = "displaying", ![i].image = image,
                                             ![i].attempts = @ + 1]
                /\ late_display' = (late_display \/ panel_asleep)
                /\ UNCHANGED sim_file
           ELSE /\ threads' = [Step(i, "load") EXCEPT ![i].attempts = @ + 1]
                /\ sim_file' = image
                /\ UNCHANGED late_display
    /\ UNCHANGED <<panel_image, panel_asleep, sleep_calls>>
    /\ UNCHANGED <<mainVars, displayVars, envVars, counterVars, clock, httpVars,
                   statusVars, snapshots>>

\* epd.display() returns: the panel shows the image; display_frame returns True
RenderDisplayReturns(i) ==
    /\ Alive
    /\ threads[i].pc = "displaying"
    /\ panel_image' = threads[i].image
    /\ threads' = [threads EXCEPT ![i].pc = "load", ![i].image = NoImage]
    /\ UNCHANGED <<panel_asleep, sleep_calls, late_display, sim_file>>
    /\ UNCHANGED <<mainVars, displayVars, envVars, counterVars, clock, httpVars,
                   statusVars, snapshots>>

\* A _render that would count the frame although display_frame returned False
RenderDisplayRaisesCounted(i) ==
    /\ Alive
    /\ threads[i].pc = "displaying"
    /\ threads' = [threads EXCEPT ![i].pc = "load", ![i].image = NoImage,
                                  ![i].result = "failed"]
    /\ UNCHANGED <<mainVars, displayVars, envVars, counterVars, clock, panelVars,
                   httpVars, statusVars, snapshots>>

\* A _render that would call display_frame once more after a driver error
RenderDisplayRaisesRetried(i) ==
    /\ Alive
    /\ threads[i].pc = "displaying"
    /\ threads' = [threads EXCEPT ![i].pc = IF threads[i].attempts < 2 THEN "open" ELSE "done",
                                  ![i].image = NoImage,
                                  ![i].result = IF threads[i].attempts < 2 THEN "running"
                                                ELSE "failed"]
    /\ UNCHANGED <<mainVars, displayVars, envVars, counterVars, clock, panelVars,
                   httpVars, statusVars, snapshots>>

\* epd.display() raises: display_frame returns False (:157-159) and _render
\* only logs it
RenderDisplayRaises(i) ==
    /\ Alive
    /\ threads[i].pc = "displaying"
    /\ threads' = [threads EXCEPT ![i].pc = "done", ![i].image = NoImage,
                                  ![i].result = "failed"]
    /\ UNCHANGED <<mainVars, displayVars, envVars, counterVars, clock, panelVars,
                   httpVars, statusVars, snapshots>>

\* _render: self.frame_count += 1, the read
RenderLoadCount(i) ==
    /\ Alive
    /\ threads[i].pc = "load"
    /\ threads' = [threads EXCEPT ![i].pc = "store", ![i].tmp = frame_count]
    /\ UNCHANGED <<mainVars, displayVars, envVars, counterVars, clock, panelVars,
                   httpVars, statusVars, snapshots>>

\* _render: self.frame_count += 1, the write
RenderStoreCount(i) ==
    /\ Alive
    /\ threads[i].pc = "store"
    /\ frame_count' = threads[i].tmp + 1
    /\ threads' = [threads EXCEPT ![i].pc = "time", ![i].tmp = 0]
    /\ UNCHANGED <<mainVars, displayVars, envVars, last_frame_time, clock, panelVars,
                   httpVars, statusVars, snapshots>>

\* _render: time.time() is called; the clock has moved on since the last call
RenderTime(i) ==
    /\ Alive
    /\ threads[i].pc = "time"
    /\ clock' = clock + 1
    /\ threads' = [threads EXCEPT ![i].pc = "settime", ![i].t = clock + 1]
    /\ UNCHANGED <<mainVars, displayVars, envVars, counterVars, panelVars, httpVars,
                   statusVars, snapshots>>

\* _render: self.last_frame_time = <the value time.time() returned>
RenderSetTime(i) ==
    /\ Alive
    /\ threads[i].pc = "settime"
    /\ last_frame_time' = threads[i].t
    /\ threads' = [threads EXCEPT ![i].pc = "done", ![i].t = None,
                                  ![i].result = "ok"]
    /\ snapshots' = snapshots \cup {<<frame_count, threads[i].t>>}
    /\ UNCHANGED <<mainVars, displayVars, envVars, frame_count, clock, panelVars,
                   httpVars, statusVars>>

Render ==
    \/ \E i \in 1..Len(threads) : RenderDisplayFrame(i)
    \/ \E i \in 1..Len(threads) : RenderDisplayReturns(i)
    \/ \E i \in 1..Len(threads) : RenderDisplayRaises(i)
    \/ \E i \in 1..Len(threads) : RenderLoadCount(i)
    \/ \E i \in 1..Len(threads) : RenderStoreCount(i)
    \/ \E i \in 1..Len(threads) : RenderTime(i)
    \/ \E i \in 1..Len(threads) : RenderSetTime(i)

(***************************************************************************)
(* The whole service                                                       *)
(***************************************************************************)
Startup ==
    \/ MainValidatesModel
    \/ ConstructService
    \/ ConstructRaises
    \/ InitializeSimulation
    \/ InitializeCreateEpd
    \/ InitializeCreateFails
    \/ EpdInitHangs
    \/ EpdInitReturns
    \/ EpdInitTimesOut
    \/ EpdInitRaises
    \/ StartFails
    \/ ShowStartupScreen
    \/ StartServer

Shutdown ==
    \/ SignalHandler
    \/ AppShutdown
    \/ ProcessExit

Requests ==
    \/ \E data \in DataInputs : nreq < MaxRequests /\ HandleStreamData(data)
    \/ \E frame_data \in LegacyInputs : nreq < MaxRequests /\ DisplayFrameEndpoint(frame_data)

Next == Startup \/ Shutdown \/ Requests \/ Render

Spec == Init /\ [][Next]_vars

\* The whole service, where the kernel delivers a pending SIGALRM
SpecFair == Init /\ [][Next]_vars /\ WF_vars(EpdInitTimesOut)

(***************************************************************************)
(* The decoding of one buffer: the service is up (any state StartServer    *)
(* leaves), /api/display/frame may have taken one request, and one buffer  *)
(* of DecodeInputs is POSTed to /api/data while that frame's render is     *)
(* anywhere on its way.                                                    *)
(***************************************************************************)
\* A PNG that PIL cannot open, and a payload that is no PNG at all
CorruptPng == PNG_SIGNATURE \o Fill(MinFrameLen - 8, 0)
Garbage == Fill(MinFrameLen, 7)

DecodeHeaders ==
    { Prefix(Digits(l, 4), Digits(t, 2), Digits(r, 2)) :
        l \in {0, 10, 9999}, t \in {0, 1, 2, 3, 20, 99}, r \in {0, 7} }

DecodePayloads ==
    { <<>>, FrameA, Take(FrameA, MinFrameLen - 1), CorruptPng, Garbage,
      <<123, 125>>, <<255>>, <<31, 139, 8, 123, 125>>, <<31, 139, 8, 255>> }

\* Buffers of 8 bytes or more whose first 8 bytes are not 8 digits
Unprefixed ==
    { FrameA, PNG_SIGNATURE, PNG_SIGNATURE \o <<0>>, CorruptPng,
      [PNG_SIGNATURE EXCEPT ![8] = 13] \o Drop(FrameA, 8),
      Fill(8, 7), Garbage,
      <<48, 48, 48, 48, 48, 50, 48, 120>> \o FrameA,
      <<32, 48, 48, 48, 48, 50, 48, 48>> \o FrameA,
      <<200, 48, 48, 48, 48, 50, 48, 48>> \o FrameA }

\* Buffers of fewer than 8 bytes
ShortInputs ==
    { Take(h, k) : h \in {Digits(200, 8), Digits(0, 8), Digits(100, 8), PNG_SIGNATURE},
                   k \in 0..(PrefixLen - 1) }

DecodeInputs ==
    {h \o p : h \in DecodeHeaders, p \in DecodePayloads} \cup Unprefixed \cup ShortInputs

LegacyDecodeInputs == { FrameB, Take(FrameB, MinFrameLen - 1), <<>> }

InitDecode ==
    /\ main_pc = "loop"
    /\ args_model \in ArgModels
    /\ exit_code = None
    /\ running = TRUE
    /\ model = args_model
    /\ binding \in {"imports", "absent"}
    /\ hardware_available = (binding = "imports")
    /\ epd = hardware_available
    /\ \E g \in DriverGeometry(model) :
          /\ width = g[1]
          /\ height = g[2]
    /\ ~hardware_available =>
          /\ width = DISPLAY_MODELS[model].width
          /\ height = DISPLAY_MODELS[model].height
    /\ initialized = TRUE
    /\ alarm = FALSE
    /\ init_result = "True"
    /\ http_server = TRUE
    /\ srv_running = TRUE
    /\ frame_count = 0
    /\ last_frame_time = None
    /\ clock = 0
    /\ threads = <<>>
    /\ panel_image \in {NoImage, [size |-> <<width, height>>, mode |-> "RGB", px |-> 255]}
    /\ ~hardware_available => panel_image = NoImage
    /\ panel_asleep = FALSE
    /\ sleep_calls = 0
    /\ late_display = FALSE
    /\ sim_file = IF hardware_available THEN NoImage
                  ELSE [size |-> <<width, height>>, mode |-> "RGB", px |-> 255]
    /\ http = NoExchange
    /\ nreq = 0
    /\ status_call = NoStatusCall
    /\ status = NoStatus
    /\ snapshots = {<<0, None>>}
    /\ stats = NoStats

NextDecode ==
    \/ \E frame_data \in LegacyDecodeInputs : nreq = 0 /\ DisplayFrameEndpoint(frame_data)
    \/ \E data \in DecodeInputs : http.ep # "data" /\ HandleStreamData(data)
    \/ Render

SpecDecode == InitDecode /\ [][NextDecode]_vars

(***************************************************************************)
(* GET /api/status while frames are rendered: the service is up, at most   *)
(* MaxFrames frames are POSTed to /api/display/frame, and status requests  *)
(* are served at any moment of their renders.                              *)
(***************************************************************************)
\* get_display_stats() (display_service.py:205-217)
DisplayStats ==
    [initialized |-> initialized, hardware_available |-> hardware_available,
     model |-> model, width |-> width, height |-> height]

\* get_status: get_display_stats() is called and, building the response,
\* self.frame_count is read (http_server.py:85-92)
GetStatusReadCount ==
    /\ Serving
    /\ status_call.pc = "idle"
    /\ status_call' = [pc |-> "count_read", frames_displayed |-> frame_count,
                       display_stats |-> DisplayStats]
    /\ UNCHANGED <<mainVars, displayVars, envVars, counterVars, clock, threads,
                   panelVars, httpVars, status, stats, snapshots>>

\* get_status: self.last_frame_time and display.initialized are read and the
\* response sent (http_server.py:93-99)
GetStatusRespond ==
    /\ Serving
    /\ status_call.pc = "count_read"
    /\ status' = [frames_displayed |-> status_call.frames_displayed,
                  last_frame |-> last_frame_time,
                  display_initialized |-> initialized,
                  hardware_available |-> status_call.display_stats.hardware_available]
    /\ status_call' = NoStatusCall
    /\ UNCHANGED <<mainVars, displayVars, envVars, counterVars, clock, threads,
                   panelVars, httpVars, stats, snapshots>>

StatusInputs == { FrameA, FrameB }

NextStatus ==
    \/ \E frame_data \in StatusInputs : nreq < MaxFrames /\ DisplayFrameEndpoint(frame_data)
    \/ Render
    \/ GetStatusReadCount
    \/ GetStatusRespond

SpecStatus == InitDecode /\ [][NextStatus]_vars

(***************************************************************************)
(* DisplayService under any caller: the object is constructed, initialize()*)
(* is called, and once it has returned True the other methods are called   *)
(* one after the other in any order (display_service.py:129-217).          *)
(***************************************************************************)
\* A frame of another size than any panel's, with an alpha channel
SmallFrame == MkPng(10, 20, 6, 5, MinFrameLen)

ApiInputs == { FrameA, FrameB, SmallFrame, Garbage }

\* What no call of a DisplayService method touches
apiRest == <<mainVars, envVars, counterVars, clock, threads, httpVars,
             status_call, status, snapshots>>

\* A display_frame that would take the frame's size for the panel's
ApiDisplayFrameAdoptsSize(frame_data) ==
    /\ main_pc = "startup"
    /\ LET image == PilOpen(frame_data)
       IN  IF image = NoImage
           THEN UNCHANGED <<width, height, panel_image, late_display, sim_file>>
           ELSE /\ width' = image.size[1]
                /\ height' = image.size[2]
                /\ IF hardware_available /\ epd
                   THEN /\ panel_image' = ConvertRGB(image)
                        /\ late_display' = (late_display \/ panel_asleep)
                        /\ UNCHANGED sim_file
                   ELSE /\ sim_file' = ConvertRGB(image)
                        /\ UNCHANGED <<panel_image, late_display>>
    /\ UNCHANGED <<model, initialized, hardware_available, epd, alarm, init_result>>
    /\ UNCHANGED <<panel_asleep, sleep_calls, stats, apiRest>>

\* display_frame(frame_data), from open to return (:129-159)
ApiDisplayFrame(frame_data) ==
    /\ main_pc = "startup"
    /\ LET image == PrepareImage(frame_data, width, height)
       IN  IF image = NoImage
           THEN UNCHANGED <<panel_image, late_display, sim_file>>
           ELSE IF hardware_available /\ epd
           THEN /\ \/ panel_image' = image
                   \/ panel_image' = panel_image
                /\ late_display' = (late_display \/ panel_asleep)
                /\ UNCHANGED sim_file
           ELSE /\ sim_file' = image
                /\ UNCHANGED <<panel_image, late_display>>
    /\ UNCHANGED <<panel_asleep, sleep_calls, displayVars, stats, apiRest>>

\* show_startup_screen() (:161-180)
ApiShowStartupScreen ==
    /\ main_pc = "startup"
    /\ StartupScreen
    /\ UNCHANGED <<displayVars, stats, apiRest>>

\* clear_display(): the driver's Clear() whitens the panel, or raises and is
\* only logged (:182-191)
ApiClearDisplay ==
    /\ main_pc = "startup"
    /\ IF hardware_available /\ epd
       THEN \/ panel_image' = StartupImage
            \/ panel_image' = panel_image
       ELSE UNCHANGED panel_image
    /\ UNCHANGED <<panel_asleep, sleep_calls, late_display, sim_file>>
    /\ UNCHANGED <<displayVars, stats, apiRest>>

\* shutdown() (:193-203)
ApiShutdown ==
    /\ main_pc = "startup"
    /\ sleep_calls < MaxShutdowns
    /\ DisplayShutdown
    /\ UNCHANGED <<displayVars, stats, apiRest>>

\* get_display_stats() (:205-217)
ApiGetStats ==
    /\ main_pc = "startup"
    /\ stats' = DisplayStats
    /\ UNCHANGED <<displayVars, panelVars, apiRest>>

InitApi ==
    /\ main_pc = "start"
    /\ args_model \in ArgModels
    /\ exit_code = None
    /\ running = FALSE
    /\ binding \in {"imports", "absent"}
    /\ model = args_model
    /\ width = DISPLAY_MODELS[model].width
    /\ height = DISPLAY_MODELS[model].height
    /\ initialized = FALSE
    /\ hardware_available = (binding = "imports")
    /\ epd = FALSE
    /\ alarm = FALSE
    /\ init_result = "pending"
    /\ http_server = FALSE
    /\ srv_running = FALSE
    /\ frame_count = 0
    /\ last_frame_time = None
    /\ clock = 0
    /\ threads = <<>>
    /\ panel_image = NoImage
    /\ panel_asleep = FALSE
    /\ sleep_calls = 0
    /\ late_display = FALSE
    /\ sim_file = NoImage
    /\ http = NoExchange
    /\ nreq = 0
    /\ status_call = NoStatusCall
    /\ status = NoStatus
    /\ snapshots = {<<0, None>>}
    /\ stats = NoStats

NextApi ==
    \/ InitializeSimulation
    \/ InitializeCreateEpd
    \/ InitializeCreateFails
    \/ EpdInitHangs
    \/ EpdInitReturns
    \/ EpdInitTimesOut
    \/ EpdInitRaises
    \/ \E frame_data \in ApiInputs : ApiDisplayFrame(frame_data)
    \/ ApiShowStartupScreen
    \/ ApiClearDisplay
    \/ ApiShutdown
    \/ ApiGetStats

SpecApi == InitApi /\ [][NextApi]_vars

(***************************************************************************)
(* Properties                                                              *)
(***************************************************************************)
\* A request was handled in this step; http' describes it
Handled == nreq' = nreq + 1

\* All bytes are ASCII decimal digits
AllDecimalDigits(s) == \A i \in 1..Len(s) : s[i] \in 48..57

\* The render threads have all finished, and none failed
Quiesced ==
    /\ threads # <<>>
    /\ \A i \in 1..Len(threads) : threads[i].pc = "done" /\ threads[i].result = "ok"

\* C1: at every instant at most one display() call is executing against the
\* panel driver, whatever requests arrive on whatever handlers
C1_MutualExclusion == Cardinality(InDisplay) <= 1

\* C2: once every accepted frame's render has finished and none failed, the
\* panel shows the render of the most recently submitted frame
C2_LatestFrameWins ==
    (hardware_available /\ epd /\ Quiesced) =>
        panel_image = PrepareImage(threads[Len(threads)].frame_data, width, height)

\* C3: at most two accepted frames have a render that has not finished (one
\* rendering, at most one pending)
C3_BoundedDepth == Cardinality(Unfinished) <= 2

\* C4: no step makes frame_count or last_frame_time smaller
C4_CountersMonotonic ==
    [][frame_count' >= frame_count /\ last_frame_time' >= last_frame_time]_vars

\* C5: a type-02 payload that does not start with the PNG signature is
\* rejected (the submission fails, no render is started), and no render
\* thread ever holds a frame without the signature
C5_PngOnly ==
    /\ ( /\ http.ep = "data"
         /\ Len(http.body) >= 8
         /\ AllDecimalDigits(Take(http.body, 8))
         /\ SubSeq(http.body, 5, 6) = <<48, 50>>
         /\ Take(Drop(http.body, 8), 8) # PNG_SIGNATURE )
       => (http.status # 200 /\ ~http.out.spawn)
    /\ \A i \in 1..Len(threads) : Take(threads[i].frame_data, 8) = PNG_SIGNATURE

\* C6: no frame of fewer than 100 bytes is accepted or handed to a render,
\* by whichever route it came (type 02, signature sniffing, legacy endpoint)
C6_MinFrameSize ==
    /\ http.out.spawn => Len(http.out.payload) >= 100
    /\ \A i \in 1..Len(threads) : Len(threads[i].frame_data) >= 100

\* The message kind the TT field stands for
KindOfType(tt) ==
    CASE tt = <<48, 50>> -> "Frame"
      [] tt = <<48, 48>> -> "ConfigJson"
      [] tt = <<48, 49>> -> "ConfigGzip"
      [] OTHER -> "Unknown"

\* C7: a buffer of 8 bytes or more that starts with 8 decimal digits is
\* dispatched on TT alone, with payload = bytes[8:]: 02 Frame, 00 ConfigJson,
\* 01 ConfigGzip, anything else Unknown and rejected; the outcome is the one
\* of the same TT and payload under LLLL = 0000 and RR = 00
C7_HeaderDispatch ==
    [][ ( /\ Handled
          /\ http'.ep = "data"
          /\ Len(http'.body) >= 8
          /\ AllDecimalDigits(Take(http'.body, 8)) )
        => LET body    == http'.body
               tt      == SubSeq(body, 5, 6)
               payload == Drop(body, 8)
               plain   == ProcessStreamData(<<48, 48, 48, 48>> \o tt \o <<48, 48>> \o payload)
           IN  /\ http'.out.kind = KindOfType(tt)
               /\ http'.out.payload = payload
               /\ KindOfType(tt) = "Unknown" => (http'.status = 500 /\ threads' = threads)
               /\ http'.out = plain
               /\ http'.status = IF plain.ret THEN 200 ELSE 500
               /\ threads' = IF plain.spawn THEN Append(threads, NewThread(payload))
                             ELSE threads
      ]_vars

\* C7 witness: "0010" "02" "07" and a frame: taken as Frame, and a render
\* thread holds exactly the bytes after the prefix
C7_Witness ==
    /\ http.ep = "data"
    /\ Take(http.body, 8) = <<48, 48, 49, 48, 48, 50, 48, 55>>
    /\ http.out.kind = "Frame"
    /\ http.status = 200
    /\ threads # <<>>
    /\ threads[Len(threads)].frame_data = Drop(http.body, 8)

\* C8: a buffer of 8 bytes or more that does not start with 8 decimal digits
\* is a Frame of the whole buffer (prefix not stripped, a render started for
\* it) if it starts with the PNG signature, and is rejected with no render
\* started otherwise
C8_SignatureSniffing ==
    [][ ( /\ Handled
          /\ http'.ep = "data"
          /\ Len(http'.body) >= 8
          /\ ~AllDecimalDigits(Take(http'.body, 8)) )
        => IF Take(http'.body, 8) = PNG_SIGNATURE
           THEN /\ http'.out.kind = "Frame"
                /\ http'.out.payload = http'.body
                /\ http'.status = 200
                /\ threads' = Append(threads, NewThread(http'.body))
           ELSE /\ http'.out.kind = "Unknown"
                /\ http'.status = 500
                /\ threads' = threads
      ]_vars

\* C8 witness: an unprefixed PNG was posted and a render thread holds all of it
C8_Witness ==
    /\ http.ep = "data"
    /\ http.body = FrameA
    /\ http.status = 200
    /\ threads # <<>>
    /\ threads[Len(threads)].frame_data = FrameA

\* C9: a buffer of fewer than 8 bytes is rejected (as too short, when the
\* decoder sees it), starts no render, and leaves frame_count, last_frame_time
\* and the display state as they were
C9_TooShort ==
    [][ ( /\ Handled
          /\ http'.ep = "data"
          /\ Len(http'.body) < 8 )
        => /\ http'.status \in {400, 500}
           /\ ~http'.out.ret
           /\ ~http'.out.spawn
           /\ Len(http'.body) > 0 => http'.out.kind = "TooShort"
           /\ threads' = threads
           /\ UNCHANGED <<counterVars, panelVars, displayVars>>
      ]_vars

\* C9 witness: a 7-byte buffer was rejected while an earlier frame's render
\* had updated the counters or was driving the panel
C9_Witness ==
    /\ http.ep = "data"
    /\ Len(http.body) = 7
    /\ http.status = 500
    /\ threads # <<>>
    /\ threads[1].pc \in {"displaying", "done"}

\* C10: once the driver's sleep() has been called, no display() call reaches
\* the driver
C10_SleepingTerminal == ~late_display

\* C11: of any number of shutdown() calls only the first reaches the driver:
\* sleep() is never called a second time
C11_ShutdownIdempotent == sleep_calls <= 1

\* Render thread i takes this step
Steps(i) == i <= Len(threads') /\ threads'[i] # threads[i]

\* The frame of render thread i is one PIL opens
WellFormed(i) == PilOpen(threads[i].frame_data) # NoImage

\* C12: no step of a render that fails (at PIL or at the driver), from its
\* start to its failure and after it, changes frame_count, last_frame_time,
\* width, height or the image the panel shows
C12_FailedRenderNoEffect ==
    [][ \A i \in 1..Len(threads) :
          ( /\ Steps(i)
            /\ threads'[i].result = "failed" \/ threads'[i].pc = "displaying" )
          => UNCHANGED <<frame_count, last_frame_time, width, height, panel_image>>
      ]_vars

\* C12 witness: the second frame's render failed at the driver; the counters
\* and the panel are those the first frame's render left
C12_Witness ==
    /\ Len(threads) = 2
    /\ threads[1].result = "ok"
    /\ threads[2].result = "failed"
    /\ WellFormed(2)
    /\ frame_count = 1
    /\ last_frame_time = 1
    /\ panel_image = PrepareImage(threads[1].frame_data, width, height)

\* C13: a frame's render calls display_frame at most once; a thread that has
\* failed does nothing more; and a buffer posted after a failure is decoded
\* and given its render thread like any other
C13_FailureIsolated ==
    [][ /\ \A i \in 1..Len(threads') : threads'[i].attempts <= 1
        /\ \A i \in 1..Len(threads) : threads[i].result = "failed" => ~Steps(i)
        /\ ( /\ Handled
             /\ http'.ep = "data"
             /\ \E i \in 1..Len(threads) : threads[i].result = "failed" )
           => LET out == ProcessStreamData(http'.body)
              IN  /\ http'.status = (IF Len(http'.body) = 0 THEN 400
                                      ELSE IF out.ret THEN 200 ELSE 500)
                  /\ threads' = IF out.spawn THEN Append(threads, NewThread(out.payload))
                                ELSE threads
      ]_vars

\* C13 witness: the first frame failed at the driver after one attempt, and
\* the frame posted next was rendered, in one attempt
C13_Witness ==
    /\ Len(threads) = 2
    /\ threads[1].result = "failed" /\ WellFormed(1) /\ threads[1].attempts = 1
    /\ threads[2].result = "ok" /\ threads[2].attempts = 1
    /\ http.ep = "data" /\ http.status = 200
    /\ panel_image = PrepareImage(threads[2].frame_data, width, height)

\* C14: the (frames_displayed, last_frame) pair of every status response is
\* one that frame_count and last_frame_time held together when some render
\* had just completed, or the initial pair
C14_AtomicStatus ==
    status # NoStatus => <<status.frames_displayed, status.last_frame>> \in snapshots

\* C15: once initialize() has returned False, initialized is false, the main
\* thread only leaves with exit status 1, and there is no HTTP server, no
\* request handled, no render thread and no image sent to the panel or the
\* simulation file
C15_InitFailureFatal ==
    init_result = "False" =>
        /\ ~initialized
        /\ main_pc \in {"failed", "exited"}
        /\ main_pc = "exited" => exit_code = 1
        /\ ~http_server /\ ~srv_running /\ ~running
        /\ nreq = 0 /\ http = NoExchange
        /\ threads = <<>>
        /\ panel_image = NoImage /\ sim_file = NoImage /\ ~late_display

\* C15 witness: init() of a constructed EPD failed or timed out, and the
\* process has ended
C15_Witness ==
    /\ init_result = "False"
    /\ epd
    /\ ~alarm
    /\ main_pc = "exited"
    /\ exit_code = 1

\* initialize() has been called and has returned, or the process ended
\* before it could be
PastInitialize == main_pc \notin {"main", "construct", "start", "epd_init", "epd_hung"}

\* C17: whenever the vendor module of a supported model is absent or its
\* import fails, start-up ends in simulation mode (initialize() returned
\* True, initialized is true, hardware_available is false, no EPD object)
\* and no render of a frame PIL can open fails
C17_SimulationFallback ==
    ( /\ args_model \in DOMAIN DISPLAY_MODELS
      /\ binding \in {"absent", "broken"} )
    => /\ ~hardware_available /\ ~epd
       /\ PastInitialize => (init_result = "True" /\ initialized)
       /\ \A i \in 1..Len(threads) : WellFormed(i) => threads[i].result # "failed"

\* C18: for a --model that is not in DISPLAY_MODELS the process ends with
\* status 1 and no DisplayService is ever constructed, initialized or
\* rendered to; and a constructed DisplayService has a model of the registry
C18_UnknownModelRejected ==
    /\ args_model \notin DOMAIN DISPLAY_MODELS =>
          /\ main_pc \in {"main", "exited"}
          /\ main_pc = "exited" => exit_code = 1
          /\ model = "none"
          /\ ~initialized /\ ~epd /\ init_result = "pending"
          /\ ~http_server /\ threads = <<>>
          /\ panel_image = NoImage /\ sim_file = NoImage
    /\ model # "none" => model \in DOMAIN DISPLAY_MODELS

\* C18 witness: an unknown model was given and main() has returned 1
C18_Witness ==
    /\ args_model \notin DOMAIN DISPLAY_MODELS
    /\ main_pc = "exited"
    /\ exit_code = 1
    /\ model = "none"

\* C16: whenever the main thread is in an epd.init() that will never return,
\* initialize() later returns False: the alarm armed before the call fires
\* and its TimeoutError is caught
C16_InitDeadline ==
    (main_pc = "epd_hung") ~> (init_result = "False" /\ main_pc \in {"failed", "exited"})

\* C16 witness: epd.init() hangs with the alarm pending
C16_Witness ==
    /\ main_pc = "epd_hung"
    /\ alarm
    /\ init_result = "pending"

\* C19: the image of every display() call in progress has exactly the size
\* (width, height) of the DisplayService
C19_DriverBufferGeometry ==
    \A i \in InDisplay : threads[i].image.size = <<width, height>>

\* C19 witness: a frame of another size than the panel's is in display()
C19_Witness ==
    \E i \in InDisplay :
        /\ PilOpen(threads[i].frame_data).size # <<width, height>>
        /\ threads[i].image.size = <<width, height>>

\* C20: once initialized is true, no step changes width or height
C20_GeometryFixed ==
    [][initialized => (width' = width /\ height' = height)]_vars

\* C20 witness: after initialize() took the driver's geometry, a frame of
\* another size was displayed, statistics were read and shutdown() was called
C20_Witness ==
    /\ initialized
    /\ <<width, height>> = <<DISPLAY_MODELS[model].height, DISPLAY_MODELS[model].width>>
    /\ panel_image = PrepareImage(SmallFrame, width, height)
    /\ stats = DisplayStats
    /\ sleep_calls > 0

\* C21: the step that answers an accepted frame only starts its render
\* thread: the thread is at its start when the answer is given, the step
\* itself calls neither PIL nor the driver and updates no counter, and it
\* waits for no other render (the threads there are stay where they are)
C21_NonBlockingAcceptance ==
    [][ (Handled /\ http'.out.spawn)
        => /\ http'.status = 200
           /\ threads' = Append(threads, NewThread(http'.out.payload))
           /\ threads'[Len(threads')].pc = "open"
           /\ UNCHANGED <<counterVars, panelVars, clock>>
      ]_vars

\* C21 witness: a frame was accepted on /api/data and answered 200; its
\* render has not begun, and the render of the frame accepted before it is
\* inside the driver's display()
C21_Witness ==
    /\ Len(threads) = 2
    /\ http.ep = "data"
    /\ http.status = 200
    /\ threads[1].pc = "displaying"
    /\ threads[2].pc = "open"
    /\ threads[2].attempts = 0

\* What a buffer of 8 bytes or more is, by the protocol: the kind its TT
\* field names, or without a digit prefix a Frame if it starts as a PNG
MessageKind(body) ==
    IF AllDecimalDigits(Take(body, 8)) THEN KindOfType(SubSeq(body, 5, 6))
    ELSE IF Take(body, 8) = PNG_SIGNATURE THEN "Frame"
    ELSE "Unknown"

\* C22: handling a ConfigJson, ConfigGzip or Unknown message starts no render
\* thread and leaves frame_count, last_frame_time and the panel as they were,
\* whether or not its payload decodes; an Unknown message is answered 500
C22_OnlyFramesRender ==
    [][ ( /\ Handled
          /\ http'.ep = "data"
          /\ Len(http'.body) >= 8
          /\ MessageKind(http'.body) \in {"ConfigJson", "ConfigGzip", "Unknown"} )
        => /\ threads' = threads
           /\ ~http'.out.spawn
           /\ UNCHANGED <<counterVars, panelVars>>
           /\ MessageKind(http'.body) = "Unknown" => (http'.status = 500 /\ ~http'.out.ret)
      ]_vars

\* C22 witness: a type-01 message whose gzip data does not decompress was
\* answered 500 after an earlier frame had been rendered and counted once
C22_Witness ==
    /\ http.ep = "data"
    /\ Len(http.body) >= 8
    /\ MessageKind(http.body) = "ConfigGzip"
    /\ GzipDecompress(Drop(http.body, 8)) = GzipBad
    /\ http.status = 500
    /\ Len(threads) = 1
    /\ threads[1].result = "ok"
    /\ frame_count = 1

\* Render threads whose display_frame returned True and that have finished
Succeeded == {i \in 1..Len(threads) : threads[i].pc = "done" /\ threads[i].result = "ok"}

\* C23: while the process lives and no render thread is unfinished,
\* frame_count is the number of renders that succeeded
C23_NoLostUpdates ==
    (Alive /\ http_server /\ Unfinished = {}) => frame_count = Cardinality(Succeeded)

\* C24: once initialize() has returned, whatever it returned, the alarm it
\* armed is no longer pending
C24_AlarmDisarmed == init_result # "pending" => ~alarm

====
